---- MODULE Spec2Model ----
(***************************************************************************)
(* A model of scripts/sync-skills.py: the manifest-driven mirror of remote *)
(* files and directories into a local tree.                                *)
(*                                                                         *)
(* Paths are sequences of name components ("d/a/b" is <<"d","a","b">>);    *)
(* a trailing "/" of a source path is a final empty component.  The local  *)
(* filesystem and the remote repository are functions from paths to nodes: *)
(* NONE (nothing there), DIR (a directory) or the bytes of a regular file. *)
(***************************************************************************)
EXTENDS Integers, Sequences, FiniteSets, TLC

VARIABLES
    manifest,    \* skills/skills-manifest.yaml: present or not, and its document
    remote,      \* the remote repository tree (unchanged during the whole behaviour)
    fs,          \* the local filesystem below the repository root
    pc,          \* position of main(): "start", "sync", "done", "exited", "crashed"
    idx,         \* index of the next skill of the manifest to sync
    exit_code,   \* exit code of the process once it stopped (-1 while it runs)
    net_calls,   \* remote calls made by the current run
    fs_writes,   \* filesystem mutations made by the current run
    results,     \* the current run's sync_skill results, in processing order
    prev,        \* the run before the current one, once the script has run
                 \* again: its results, its remote calls and the filesystem
                 \* it left
    last,        \* trace of the latest sync_skill call
    exception,   \* the exception that ended the process ("" for none)
    gh_output,   \* the text the current run appended to the file that
                 \* GITHUB_OUTPUT names
    gh_summary,  \* the text the current run appended to the file that
                 \* GITHUB_STEP_SUMMARY names
    run          \* the number of the current run of the script

vars == <<manifest, remote, fs, pc, idx, exit_code, net_calls, fs_writes,
          results, prev, last, exception, gh_output, gh_summary, run>>

----------------------------------------------------------------------------
(* Bounds of the model *)

\* longest skills list of a manifest
MaxSkills == 2
\* remote calls of one sync_skill that end in an error
MaxFaults == 1
\* consecutive runs of the script
MaxRuns == 2

\* file contents
Bytes == {"v1", "v2"}
NONE == "<none>"
DIR == "<dir>"
Nodes == {NONE, DIR} \cup Bytes

\* every name in use, in the order Python compares strings
NameOrder == <<"a", "b", "d", "f", "g", "s", "x">>

LPaths == { <<"d">>, <<"d", "a">>, <<"d", "a", "b">>, <<"d", "a", "b", "f">>,
            <<"d", "g">> }
RPaths == { <<"s">>, <<"s", "a">>, <<"s", "a", "b">>, <<"s", "a", "b", "f">>,
            <<"s", "g">>, <<"x">> }

----------------------------------------------------------------------------
(* pathlib *)

Parent(p) == SubSeq(p, 1, Len(p) - 1)

\* p / name
Join(p, name) == Append(p, name)

\* p is a proper ancestor of q
IsAncestor(p, q) == Len(p) < Len(q) /\ SubSeq(q, 1, Len(p)) = p

Rank(name) == CHOOSE i \in 1..Len(NameOrder) : NameOrder[i] = name

\* Path.__lt__: the sequences of parts, compared lexicographically
RECURSIVE PathLess(_, _)
PathLess(p, q) ==
    IF p = <<>> THEN q # <<>>
    ELSE IF q = <<>> THEN FALSE
    ELSE IF Head(p) = Head(q) THEN PathLess(Tail(p), Tail(q))
    ELSE Rank(Head(p)) < Rank(Head(q))

\* sorted(paths)
RECURSIVE Sorted(_)
Sorted(S) ==
    IF S = {} THEN <<>>
    ELSE LET m == CHOOSE x \in S : \A y \in S \ {x} : PathLess(x, y)
         IN  <<m>> \o Sorted(S \ {m})

\* a slip: the directories are visited in ascending order, parents first
Reverse_forgotten(s) == s

\* sorted(paths, reverse=True)
Reverse(s) == [i \in 1..Len(s) |-> s[Len(s) + 1 - i]]

\* the node at a path; the repository root (the working directory) is a directory
NodeAt(f, p) == IF p = <<>> THEN DIR ELSE IF p \in DOMAIN f THEN f[p] ELSE NONE

Exists(f, p) == NodeAt(f, p) # NONE
IsFile(f, p) == NodeAt(f, p) \in Bytes
IsDir(f, p) == NodeAt(f, p) = DIR

\* a tree: whatever exists lies in a directory
TreeOK(f) == \A p \in DOMAIN f : f[p] # NONE => IsDir(f, Parent(p))

\* a slip: glob("*") for rglob("*"), the direct children only
Rglob_children(f, p) == { q \in DOMAIN f : Parent(q) = p /\ f[q] # NONE }

\* dest_path.rglob("*"): everything that exists below p
Rglob(f, p) == { q \in DOMAIN f : IsAncestor(p, q) /\ f[q] # NONE }

\* any(dirpath.iterdir())
HasChildren(f, p) == \E q \in DOMAIN f : Parent(q) = p /\ f[q] # NONE

\* the regular files below p
FilesUnder(f, p) == { q \in DOMAIN f : IsAncestor(p, q) /\ f[q] \in Bytes }

\* str.rstrip("/") on a path of components: drop the trailing empty components
RECURSIVE rstrip(_)
rstrip(p) ==
    IF p # <<>> /\ p[Len(p)] = "" THEN rstrip(SubSeq(p, 1, Len(p) - 1)) ELSE p

\* str.endswith("/")
endswith_slash(p) == p # <<>> /\ p[Len(p)] = ""

----------------------------------------------------------------------------
(* The remote side.  `out` gives, for every remote path, how a request for  *)
(* it ends: "ok" (the server answers), "HTTPError" or "URLError" (urllib    *)
(* raises it), "JSONDecodeError" (a listing answered with a body that is    *)
(* not JSON), or an exception of the request that is neither an HTTPError   *)
(* nor a URLError: "TimeoutError" (response.read() times out) and           *)
(* "RemoteDisconnected" (the server closes the connection without an        *)
(* answer).  A request for a path that is not there is answered 404, which  *)
(* urllib raises as an HTTPError.                                           *)

\* the exceptions of a request that the except clauses do not name
Uncaught == {"TimeoutError", "RemoteDisconnected"}

Outcomes == {"ok", "HTTPError", "URLError", "JSONDecodeError"} \cup Uncaught

\* download_file: the bytes, "None" after an HTTPError or URLError, or "raise"
\* when the request raises the exception out[path] that is not caught
download_file(out, path) ==
    IF out[path] \in Uncaught THEN "raise"
    ELSE IF out[path] = "ok" /\ NodeAt(remote, path) \in Bytes
    THEN remote[path]
    ELSE "None"

\* the entries of a remote directory, in the order of their names
Listing(path) ==
    LET names == SelectSeq(NameOrder,
                           LAMBDA n : Exists(remote, Join(path, n)))
    IN  [i \in 1..Len(names) |->
            [path |-> Join(path, names[i]),
             name |-> names[i],
             type |-> IF IsDir(remote, Join(path, names[i])) THEN "dir" ELSE "file"]]

\* fetch_directory_contents: status "ok" with the parsed body, "None" after an
\* HTTPError or URLError, or "raise" with the exception that is not caught.
\* The contents API answers a path that is a file with one JSON object, which
\* json.loads returns as a dict (kind "dict") and not as a list of entries.
fetch_directory_contents(out, path) ==
    LET p == rstrip(path)
    IN  IF out[p] \in Uncaught \cup {"JSONDecodeError"}
        THEN [status |-> "raise", kind |-> "none", items |-> <<>>,
              err |-> out[p]]
        ELSE IF out[p] \in {"HTTPError", "URLError"} \/ ~Exists(remote, p)
        THEN [status |-> "None", kind |-> "none", items |-> <<>>, err |-> ""]
        ELSE IF IsDir(remote, p)
        THEN [status |-> "ok", kind |-> "list", items |-> Listing(p), err |-> ""]
        ELSE [status |-> "ok", kind |-> "dict", items |-> <<>>, err |-> ""]

----------------------------------------------------------------------------
(* The local side.  A world `w` is threaded through the calls of one        *)
(* sync_skill: the filesystem, the exception in flight (err, "" for none),  *)
(* the counts of remote calls and filesystem mutations, and the traces of   *)
(* the sync_file and sync_directory calls made so far.                      *)

World(f) == [fs |-> f, err |-> "", net |-> 0, writes |-> 0,
             file_calls |-> <<>>, listings |-> <<>>, answers |-> <<>>]

\* the proper ancestors of p that are missing, which mkdir(parents=True) creates
MissingDirs(f, p) == { q \in DOMAIN f : (q = p \/ IsAncestor(q, p)) /\ f[q] = NONE }

\* Path.mkdir(parents=True, exist_ok=True)
mkdir_parents(f, p) ==
    IF IsFile(f, p) THEN [fs |-> f, err |-> "FileExistsError", made |-> 0]
    ELSE IF \E q \in DOMAIN f : IsAncestor(q, p) /\ f[q] \in Bytes
    THEN [fs |-> f, err |-> "NotADirectoryError", made |-> 0]
    ELSE [fs |-> [q \in DOMAIN f |-> IF q \in MissingDirs(f, p) THEN DIR ELSE f[q]],
          err |-> "", made |-> Cardinality(MissingDirs(f, p))]

\* one entry of the sync_file trace
FileCall(w, src_path, dest_path, content, ret, w2) ==
    [src |-> src_path, dest |-> dest_path, content |-> content, ret |-> ret,
     err |-> w2.err, pre |-> w.fs, post |-> w2.fs,
     wrote |-> w2.writes - w.writes]

\* a slip: an existing destination is never overwritten
sync_file_keep_existing(w, out, src_path, dest_path) ==
    LET content == download_file(out, src_path)
        w1 == [w EXCEPT !.net = @ + 1,
                        !.answers = Append(@, <<src_path, content>>)]
        made == mkdir_parents(w.fs, Parent(dest_path))
        done(w2, ret) ==
            [w |-> [w2 EXCEPT !.file_calls =
                        Append(@, FileCall(w, src_path, dest_path, content, ret, w2))],
             ret |-> ret]
    IN  IF content = "raise" THEN done([w1 EXCEPT !.err = out[src_path]], FALSE)
        ELSE IF content = "None" THEN done(w1, FALSE)
        ELSE IF Exists(w.fs, dest_path) THEN done(w1, FALSE)
        ELSE IF made.err # ""
        THEN done([w1 EXCEPT !.err = made.err], FALSE)
        ELSE done([w1 EXCEPT !.fs = [made.fs EXCEPT ![dest_path] = content],
                             !.writes = @ + made.made + 1], TRUE)

\* a slip: the parent directories are created before the fetch is looked at
sync_file_mkdir_first(w, out, src_path, dest_path) ==
    LET content == download_file(out, src_path)
        made == mkdir_parents(w.fs, Parent(dest_path))
        w1 == [w EXCEPT !.net = @ + 1,
                        !.answers = Append(@, <<src_path, content>>),
                        !.fs = made.fs,
                        !.writes = @ + made.made]
        done(w2, ret) ==
            [w |-> [w2 EXCEPT !.file_calls =
                        Append(@, FileCall(w, src_path, dest_path, content, ret, w2))],
             ret |-> ret]
    IN  IF made.err # "" THEN done([w1 EXCEPT !.err = made.err], FALSE)
        ELSE IF content = "raise" THEN done([w1 EXCEPT !.err = out[src_path]], FALSE)
        ELSE IF content = "None" THEN done(w1, FALSE)
        ELSE IF IsDir(w.fs, dest_path)
        THEN done([w1 EXCEPT !.err = "IsADirectoryError"], FALSE)
        ELSE IF Exists(w.fs, dest_path) /\ NodeAt(w.fs, dest_path) = content
        THEN done(w1, FALSE)
        ELSE done([w1 EXCEPT !.fs = [made.fs EXCEPT ![dest_path] = content],
                             !.writes = @ + 1], TRUE)

\* a slip: the fetched bytes are written without comparing them to the file
sync_file_always_write(w, out, src_path, dest_path) ==
    LET content == download_file(out, src_path)
        w1 == [w EXCEPT !.net = @ + 1,
                        !.answers = Append(@, <<src_path, content>>)]
        made == mkdir_parents(w.fs, Parent(dest_path))
        done(w2, ret) ==
            [w |-> [w2 EXCEPT !.file_calls =
                        Append(@, FileCall(w, src_path, dest_path, content, ret, w2))],
             ret |-> ret]
    IN  IF content = "raise" THEN done([w1 EXCEPT !.err = out[src_path]], FALSE)
        ELSE IF content = "None" THEN done(w1, FALSE)
        ELSE IF IsDir(w.fs, dest_path)
        THEN done([w1 EXCEPT !.err = "IsADirectoryError"], FALSE)
        ELSE IF made.err # ""
        THEN done([w1 EXCEPT !.err = made.err], FALSE)
        ELSE done([w1 EXCEPT !.fs = [made.fs EXCEPT ![dest_path] = content],
                             !.writes = @ + made.made + 1], TRUE)

\* sync_file: the world after the call and the value returned
sync_file(w, out, src_path, dest_path) ==
    LET content == download_file(out, src_path)
        w1 == [w EXCEPT !.net = @ + 1,
                        !.answers = Append(@, <<src_path, content>>)]
        made == mkdir_parents(w.fs, Parent(dest_path))
        done(w2, ret) ==
            [w |-> [w2 EXCEPT !.file_calls =
                        Append(@, FileCall(w, src_path, dest_path, content, ret, w2))],
             ret |-> ret]
    IN  IF content = "raise" THEN done([w1 EXCEPT !.err = out[src_path]], FALSE)
        ELSE IF content = "None" THEN done(w1, FALSE)
        ELSE IF IsDir(w.fs, dest_path)
        THEN done([w1 EXCEPT !.err = "IsADirectoryError"], FALSE)
        ELSE IF Exists(w.fs, dest_path) /\ NodeAt(w.fs, dest_path) = content
        THEN done(w1, FALSE)
        ELSE IF made.err # ""
        THEN done([w1 EXCEPT !.err = made.err], FALSE)
        ELSE done([w1 EXCEPT !.fs = [made.fs EXCEPT ![dest_path] = content],
                             !.writes = @ + made.made + 1], TRUE)

\* sync_directory: the world after the call, the list of updated files and the
\* set of synced destination paths.  An exception in flight ends the loop.
RECURSIVE sync_directory(_, _, _, _)
RECURSIVE sync_items(_, _, _, _)

\* a slip: a file enters the synced-path set only once sync_file has updated it
sync_items_synced_on_update(r, out, items, dest_path) ==
    IF items = <<>> \/ r.w.err # "" THEN r
    ELSE LET item == Head(items)
             item_dest == Join(dest_path, item.name)
         IN  IF item.type = "file"
             THEN LET f == sync_file(r.w, out, item.path, item_dest)
                  IN  sync_items(
                          [w |-> f.w,
                           updated |-> IF f.ret THEN Append(r.updated, item_dest)
                                       ELSE r.updated,
                           synced |-> IF f.ret THEN r.synced \cup {item_dest}
                                      ELSE r.synced],
                          out, Tail(items), dest_path)
             ELSE IF item.type = "dir"
             THEN LET sub == sync_directory(r.w, out, item.path, item_dest)
                  IN  sync_items(
                          [w |-> sub.w,
                           updated |-> r.updated \o sub.updated,
                           synced |-> r.synced \cup sub.synced],
                          out, Tail(items), dest_path)
             ELSE sync_items(r, out, Tail(items), dest_path)

\* the loop of sync_directory over the entries `items` of the listing
sync_items(r, out, items, dest_path) ==
    IF items = <<>> \/ r.w.err # "" THEN r
    ELSE LET item == Head(items)
             item_dest == Join(dest_path, item.name)
         IN  IF item.type = "file"
             THEN LET f == sync_file(r.w, out, item.path, item_dest)
                  IN  sync_items(
                          [w |-> f.w,
                           updated |-> IF f.ret THEN Append(r.updated, item_dest)
                                       ELSE r.updated,
                           synced |-> r.synced \cup {item_dest}],
                          out, Tail(items), dest_path)
             ELSE IF item.type = "dir"
             THEN LET sub == sync_directory(r.w, out, item.path, item_dest)
                  IN  sync_items(
                          [w |-> sub.w,
                           updated |-> r.updated \o sub.updated,
                           synced |-> r.synced \cup sub.synced],
                          out, Tail(items), dest_path)
             ELSE sync_items(r, out, Tail(items), dest_path)

sync_directory(w, out, src_path, dest_path) ==
    LET contents == fetch_directory_contents(out, src_path)
        w1 == [w EXCEPT !.net = @ + 1,
                        !.answers = Append(@, <<src_path, contents.status>>),
                        !.listings = Append(@, [src |-> src_path, dest |-> dest_path,
                                                status |-> contents.status])]
    IN  IF contents.status = "raise"
        THEN [w |-> [w1 EXCEPT !.err = contents.err], updated |-> <<>>, synced |-> {}]
        ELSE IF contents.status = "None"
        THEN [w |-> w1, updated |-> <<>>, synced |-> {}]
        ELSE IF contents.kind = "dict"
        THEN [w |-> [w1 EXCEPT !.err = "TypeError"], updated |-> <<>>, synced |-> {}]
        ELSE sync_items([w |-> w1, updated |-> <<>>, synced |-> {}],
                        out, contents.items, dest_path)

\* the first loop of remove_stale_files, over sorted(dest_path.rglob("*"))
RECURSIVE unlink_stale(_, _, _)
unlink_stale(r, paths, synced_paths) ==
    IF paths = <<>> THEN r
    ELSE LET existing_file == Head(paths)
         IN  IF IsFile(r.fs, existing_file) /\ existing_file \notin synced_paths
             THEN unlink_stale([fs |-> [r.fs EXCEPT ![existing_file] = NONE],
                                removed |-> Append(r.removed, existing_file),
                                writes |-> r.writes + 1],
                               Tail(paths), synced_paths)
             ELSE unlink_stale(r, Tail(paths), synced_paths)

\* the second loop, over sorted(dest_path.rglob("*"), reverse=True)
RECURSIVE rmdir_empty(_, _)
rmdir_empty(r, paths) ==
    IF paths = <<>> THEN r
    ELSE LET dirpath == Head(paths)
         IN  IF IsDir(r.fs, dirpath) /\ ~HasChildren(r.fs, dirpath)
             THEN rmdir_empty([r EXCEPT !.fs = [r.fs EXCEPT ![dirpath] = NONE],
                                        !.writes = @ + 1],
                              Tail(paths))
             ELSE rmdir_empty(r, Tail(paths))

\* remove_stale_files: the filesystem after the call, the list of removed files
\* and the number of filesystem mutations
remove_stale_files(f, dest_path, synced_paths) ==
    IF ~Exists(f, dest_path) THEN [fs |-> f, removed |-> <<>>, writes |-> 0]
    ELSE LET r1 == unlink_stale([fs |-> f, removed |-> <<>>, writes |-> 0],
                                Sorted(Rglob(f, dest_path)), synced_paths)
         IN  rmdir_empty(r1, Reverse(Sorted(Rglob(r1.fs, dest_path))))

\* sync_skill: the result dict, with the world it leaves and the synced paths
sync_skill(f, out, skill) ==
    LET src_path == skill.source.path
        dest_path == skill.destination
    IN  IF endswith_slash(src_path)
        THEN LET d == sync_directory(World(f), out, rstrip(src_path), dest_path)
                 s == remove_stale_files(d.w.fs, dest_path, d.synced)
             IN  IF d.w.err # ""
                 THEN [w |-> d.w, updated |-> d.updated, removed |-> <<>>,
                       synced |-> d.synced, mode |-> "directory"]
                 ELSE [w |-> [d.w EXCEPT !.fs = s.fs, !.writes = @ + s.writes],
                       updated |-> d.updated, removed |-> s.removed,
                       synced |-> d.synced, mode |-> "directory"]
        ELSE LET c == sync_file(World(f), out, src_path, dest_path)
             IN  [w |-> c.w,
                  updated |-> IF c.ret THEN <<dest_path>> ELSE <<>>,
                  removed |-> <<>>, synced |-> {}, mode |-> "file"]

----------------------------------------------------------------------------
(* The manifest and the runs of main() *)

KD == [name |-> "KD", source |-> [path |-> <<"s", "">>], destination |-> <<"d">>]
KA == [name |-> "KA", source |-> [path |-> <<"s", "a", "">>],
       destination |-> <<"d", "a">>]
KG == [name |-> "KG", source |-> [path |-> <<"x">>], destination |-> <<"d", "g">>]
Skills == {KD, KA, KG}

\* skills lists of n skills, no skill twice
SkillLists(n) ==
    { q \in [1..n -> Skills] : \A i, j \in 1..n : q[i] = q[j] => i = j }

\* the manifest file: missing; or a file that yaml.safe_load reads as None
\* (document "None": the file is empty or holds only comments); or a mapping
\* whose "skills" key is absent, null or a list of the given lengths
Manifests(lengths) ==
    { [exists |-> FALSE, document |-> "None", key |-> "absent", skills |-> <<>>] }
    \cup { [exists |-> TRUE, document |-> "None", key |-> "absent",
             skills |-> <<>>] }
    \cup { [exists |-> TRUE, document |-> "mapping", key |-> k, skills |-> <<>>] :
                k \in {"absent", "null"} }
    \cup { [exists |-> TRUE, document |-> "mapping", key |-> "list", skills |-> q] :
                q \in UNION { SkillLists(n) : n \in lengths } }

\* the remote trees: the files below s/ hold "v1", the file x any bytes, and
\* the deepest path of the universe is no directory
RemoteTrees ==
    { r \in [RPaths -> Nodes] :
        /\ TreeOK(r)
        /\ \A p \in RPaths \ {<<"x">>} : r[p] # "v2"
        /\ r[<<"x">>] # DIR
        /\ r[<<"s", "a", "b", "f">>] # DIR }

\* the local trees
LocalTrees == { f \in [LPaths -> Nodes] : TreeOK(f) }

\* the local trees the runs start from: d is missing or a directory that may
\* hold a file g of bytes "v1" and a directory a, itself empty or holding a
\* file b of bytes "v2"
RunLocalTrees ==
    { f \in LocalTrees : /\ f[<<"d">>] \in {NONE, DIR}
                         /\ f[<<"d", "g">>] \in {NONE, "v1"}
                         /\ f[<<"d", "a">>] \in {NONE, DIR}
                         /\ f[<<"d", "a", "b">>] \in {NONE, "v2"} }

\* the remote trees of the runs: a file x of bytes "v2" beside the directory
\* s/, which holds a file g of bytes "v1" and may hold the file a/b/f
RunRemoteTrees ==
    { r \in RemoteTrees : /\ r[<<"s">>] = DIR
                          /\ r[<<"s", "g">>] = "v1"
                          /\ r[<<"x">>] = "v2"
                          /\ r[<<"s", "a">>] # NONE => r[<<"s", "a", "b", "f">>] # NONE }

\* manifest.get("skills") or [], of a manifest that is a mapping
manifest_skills(m) == IF m.key = "list" THEN m.skills ELSE <<>>

\* the remote paths a sync of `skill` may request: the source path, there or
\* not, and what the listings name below it
Requested(skill) ==
    LET src == rstrip(skill.source.path)
    IN  {src} \cup { p \in RPaths : IsAncestor(src, p) /\ Exists(remote, p) }

\* the paths a sync of `skill` requests as a listing: the source path of a
\* directory-mode skill and the directories below it
Listed(skill) ==
    { p \in Requested(skill) :
        \/ endswith_slash(skill.source.path) /\ p = rstrip(skill.source.path)
        \/ IsDir(remote, p) }

\* how the requests of one sync_skill end: at most MaxFaults of them in an
\* error, and only a listing with a body that is not JSON
OutcomeMaps(skill) ==
    { [p \in RPaths |-> IF p \in DOMAIN k THEN k[p] ELSE "ok"] :
        k \in UNION { { h \in [F -> Outcomes \ {"ok"}] :
                            \A p \in F : h[p] = "JSONDecodeError"
                                            => p \in Listed(skill) }
                      : F \in { G \in SUBSET Requested(skill) :
                                    Cardinality(G) <= MaxFaults } } }

NoLast == [valid |-> FALSE]
NoPrev == [valid |-> FALSE]

InitWith(manifests, remotes, locals) ==
    /\ manifest \in manifests
    /\ remote \in remotes
    /\ fs \in locals
    /\ pc = "start"
    /\ idx = 1
    /\ exit_code = -1
    /\ net_calls = 0
    /\ fs_writes = 0
    /\ results = <<>>
    /\ prev = NoPrev
    /\ last = NoLast
    /\ exception = ""
    /\ gh_output = ""
    /\ gh_summary = ""
    /\ run = 1

\* main, lines 152-159: the manifest is missing
main_no_manifest ==
    /\ pc = "start"
    /\ ~manifest.exists
    /\ pc' = "exited"
    /\ exit_code' = 1
    /\ UNCHANGED <<manifest, remote, fs, idx, net_calls, fs_writes, results,
                   prev, last, exception, gh_output, gh_summary, run>>

\* main, lines 164-168: the manifest is read as None, and None has no get():
\* the AttributeError ends the process with a traceback and exit code 1
main_manifest_not_mapping ==
    /\ pc = "start"
    /\ manifest.exists
    /\ manifest.document = "None"
    /\ pc' = "crashed"
    /\ exit_code' = 1
    /\ exception' = "AttributeError"
    /\ UNCHANGED <<manifest, remote, fs, idx, net_calls, fs_writes, results,
                   prev, last, gh_output, gh_summary, run>>

\* main, lines 164-171: no skills configured
main_no_skills ==
    /\ pc = "start"
    /\ manifest.exists
    /\ manifest.document = "mapping"
    /\ manifest_skills(manifest) = <<>>
    /\ pc' = "exited"
    /\ exit_code' = 0
    /\ UNCHANGED <<manifest, remote, fs, idx, net_calls, fs_writes, results,
                   prev, last, exception, gh_output, gh_summary, run>>

\* main, lines 173-176: the loop over the skills begins
main_begin ==
    /\ pc = "start"
    /\ manifest.exists
    /\ manifest.document = "mapping"
    /\ manifest_skills(manifest) # <<>>
    /\ pc' = "sync"
    /\ idx' = 1
    /\ UNCHANGED <<manifest, remote, fs, exit_code, net_calls, fs_writes,
                   results, prev, last, exception, gh_output, gh_summary,
                   run>>

\* main, lines 178-183: one iteration of the loop, a whole sync_skill call; an
\* exception it raises ends the process with a traceback and exit code 1
main_sync_skill ==
    /\ pc = "sync"
    /\ idx <= Len(manifest_skills(manifest))
    /\ \E out \in OutcomeMaps(manifest_skills(manifest)[idx]) :
        LET skill == manifest_skills(manifest)[idx]
            result == sync_skill(fs, out, skill)
        IN  /\ fs' = result.w.fs
            /\ net_calls' = net_calls + result.w.net
            /\ fs_writes' = fs_writes + result.w.writes
            /\ last' = [valid |-> TRUE, skill |-> skill, pre |-> fs,
                        w |-> result.w, updated |-> result.updated,
                        removed |-> result.removed, synced |-> result.synced,
                        mode |-> result.mode]
            /\ IF result.w.err # ""
               THEN /\ pc' = "crashed"
                    /\ exit_code' = 1
                    /\ exception' = result.w.err
                    /\ UNCHANGED <<idx, results>>
               ELSE /\ idx' = idx + 1
                    /\ results' = Append(results,
                                         [name |-> skill.name,
                                          updated |-> result.updated,
                                          removed |-> result.removed,
                                          answers |-> result.w.answers])
                    /\ UNCHANGED <<pc, exit_code, exception>>
    /\ UNCHANGED <<manifest, remote, prev, gh_output, gh_summary, run>>

\* str(Path): the components joined with "/"
RECURSIVE str(_)
str(p) ==
    IF p = <<>> THEN "."
    ELSE IF Len(p) = 1 THEN p[1]
    ELSE str(SubSeq(p, 1, Len(p) - 1)) \o "/" \o p[Len(p)]

\* sep.join(q), of a sequence of strings
RECURSIVE join(_, _)
join(sep, q) ==
    IF q = <<>> THEN ""
    ELSE IF Len(q) = 1 THEN q[1]
    ELSE q[1] \o sep \o join(sep, Tail(q))

\* main, lines 173-183: all_updated, all_removed and changed_skills once the
\* loop has gone through the results `res`
RECURSIVE all_updated(_)
all_updated(res) ==
    IF res = <<>> THEN <<>>
    ELSE [i \in 1..Len(Head(res).updated) |-> str(Head(res).updated[i])]
            \o all_updated(Tail(res))

RECURSIVE all_removed(_)
all_removed(res) ==
    IF res = <<>> THEN <<>>
    ELSE [i \in 1..Len(Head(res).removed) |-> str(Head(res).removed[i])]
            \o all_removed(Tail(res))

changed_skills(res) ==
    LET changed == SelectSeq(res, LAMBDA r : r.updated # <<>> \/ r.removed # <<>>)
    IN  [i \in 1..Len(changed) |-> changed[i].name]

has_changes(res) == all_updated(res) # <<>> \/ all_removed(res) # <<>>

\* the grave accent (U+0060), which no string of this language can hold: the
\* text below writes it as the nine characters of this string
GRAVE == "<U+0060>"

\* the lines of a list of files, each a dash, a space and the file between two
\* grave accents
RECURSIVE bullet_lines(_)
bullet_lines(files) ==
    IF files = <<>> THEN ""
    ELSE "- " \o GRAVE \o Head(files) \o GRAVE \o "\n"
            \o bullet_lines(Tail(files))

\* main, lines 203-205: what is appended to the file GITHUB_OUTPUT names
output_text(res) ==
    "updated=" \o (IF has_changes(res) THEN "true" ELSE "false") \o "\n"
    \o "skills=" \o join(", ", changed_skills(res)) \o "\n"

\* main, lines 209-224: what is appended to the file GITHUB_STEP_SUMMARY names
summary_text(res) ==
    "## Skills Sync Summary\n\n"
    \o (IF has_changes(res)
        THEN "**Skills changed:** " \o join(", ", changed_skills(res)) \o "\n\n"
             \o (IF all_updated(res) # <<>>
                 THEN "### Updated (" \o ToString(Len(all_updated(res)))
                      \o " files)\n\n" \o bullet_lines(all_updated(res)) \o "\n"
                 ELSE "")
             \o (IF all_removed(res) # <<>>
                 THEN "### Removed (" \o ToString(Len(all_removed(res)))
                      \o " files)\n\n" \o bullet_lines(all_removed(res)) \o "\n"
                 ELSE "")
        ELSE "All skills are up to date. No changes detected.\n")

\* the environment of a run: each of the two variables is unset (or empty),
\* names a file that can be opened for appending ("file"), or names a path in
\* a directory that does not exist ("nodir").  The two files lie outside the
\* destinations of the skills.
Environments ==
    [GITHUB_OUTPUT : {"unset", "file", "nodir"},
     GITHUB_STEP_SUMMARY : {"unset", "file", "nodir"}]

\* main, lines 185-224: the summary is printed and, where the environment
\* names them, the two files of GitHub Actions are appended to; an open() that
\* fails ends the process with a traceback and exit code 1, else the process
\* ends with exit code 0
main_finish ==
    /\ pc = "sync"
    /\ idx > Len(manifest_skills(manifest))
    /\ \E env \in Environments :
        IF env.GITHUB_OUTPUT = "nodir"
        THEN /\ pc' = "crashed"
             /\ exit_code' = 1
             /\ exception' = "FileNotFoundError"
             /\ UNCHANGED <<fs_writes, gh_output, gh_summary>>
        ELSE LET wrote_output == IF env.GITHUB_OUTPUT = "file" THEN 1 ELSE 0
             IN  /\ gh_output' = IF env.GITHUB_OUTPUT = "file"
                                 THEN gh_output \o output_text(results)
                                 ELSE gh_output
                 /\ IF env.GITHUB_STEP_SUMMARY = "nodir"
                    THEN /\ pc' = "crashed"
                         /\ exit_code' = 1
                         /\ exception' = "FileNotFoundError"
                         /\ fs_writes' = fs_writes + wrote_output
                         /\ UNCHANGED gh_summary
                    ELSE /\ pc' = "done"
                         /\ exit_code' = 0
                         /\ gh_summary' = IF env.GITHUB_STEP_SUMMARY = "file"
                                          THEN gh_summary \o summary_text(results)
                                          ELSE gh_summary
                         /\ fs_writes' = fs_writes + wrote_output
                                + (IF env.GITHUB_STEP_SUMMARY = "file" THEN 1 ELSE 0)
                         /\ UNCHANGED exception
    /\ UNCHANGED <<manifest, remote, fs, idx, net_calls, results, prev, last,
                   run>>

\* the remote calls of the current run and how each ended, skill by skill:
\* those of the skills that were synced and, when a sync_skill call raised,
\* those it had made
run_answers ==
    [i \in 1..Len(results) |-> results[i].answers]
        \o (IF last.valid /\ last.w.err # "" THEN <<last.w.answers>> ELSE <<>>)

\* lines 227-228: the process has ended, however it ended, and the script is
\* run again, against the same manifest and the same remote, on the
\* filesystem the run before left
run_again ==
    /\ pc \in {"done", "exited", "crashed"}
    /\ run < MaxRuns
    /\ run' = run + 1
    /\ pc' = "start"
    /\ idx' = 1
    /\ exit_code' = -1
    /\ net_calls' = 0
    /\ fs_writes' = 0
    /\ results' = <<>>
    /\ exception' = ""
    /\ gh_output' = ""
    /\ gh_summary' = ""
    /\ prev' = [valid |-> TRUE, results |-> results, answers |-> run_answers,
                fs |-> fs]
    /\ last' = NoLast
    /\ UNCHANGED <<manifest, remote, fs>>

\* One run of the script on a manifest of at most one skill, from every
\* remote tree and every local tree.
Init == InitWith(Manifests({0, 1}), RemoteTrees, LocalTrees)

Next ==
    \/ main_no_manifest
    \/ main_manifest_not_mapping
    \/ main_no_skills
    \/ main_begin
    \/ main_sync_skill
    \/ main_finish

Spec == Init /\ [][Next]_vars

\* MaxRuns consecutive runs of the script on manifests of up to MaxSkills
\* skills.
InitRuns == InitWith(Manifests(1..MaxSkills), RunRemoteTrees, RunLocalTrees)

NextRuns ==
    \/ main_no_manifest
    \/ main_manifest_not_mapping
    \/ main_no_skills
    \/ main_begin
    \/ main_sync_skill
    \/ main_finish
    \/ run_again

SpecRuns == InitRuns /\ [][NextRuns]_vars

----------------------------------------------------------------------------
(* Vocabulary of the properties *)

SeqSet(q) == { q[i] : i \in 1..Len(q) }

\* the latest sync_skill call was in directory mode and returned
DirDone == last.valid /\ last.mode = "directory" /\ last.w.err = ""

\* the sync_file calls of the latest sync_skill call
FileCalls == IF last.valid THEN SeqSet(last.w.file_calls) ELSE {}

\* the sync_directory calls of the latest sync_skill call
Listings == IF last.valid THEN SeqSet(last.w.listings) ELSE {}

\* every remote call of the latest sync_skill call was answered
AllAnswered == \A i \in 1..Len(last.w.answers) : last.w.answers[i][2] # "None"

\* the destination path of the remote path p, for a sync of src into dest
Mapped(src, dest, p) == dest \o SubSeq(p, Len(src) + 1, Len(p))

\* the files of the remote tree at src, as destination paths
RemoteFiles(src, dest) ==
    { Mapped(src, dest, p) :
        p \in { q \in RPaths : IsAncestor(src, q) /\ remote[q] \in Bytes } }

\* p is an empty directory of the tree f
EmptyDir(f, p) == IsDir(f, p) /\ ~HasChildren(f, p)

----------------------------------------------------------------------------
(* C1 *)

\* every listing of the latest sync_skill call was answered
ListingsAnswered == \A l \in Listings : l.status = "ok"

\* C1 as stated: after sync_skill completes in directory mode, whatever the
\* outcomes of the remote calls, the files under the destination are exactly
\* the files of the remote tree at the source path.  (Stated here for the syncs
\* whose listings were all answered: a failed download is enough to break it.)
C1_PruningCompleteness_Stated ==
    (DirDone /\ ListingsAnswered) =>
        FilesUnder(fs, last.skill.destination)
            = RemoteFiles(rstrip(last.skill.source.path), last.skill.destination)

\* C1 as amended: after sync_skill completes in directory mode no file without
\* a remote counterpart remains under the destination, whatever the outcomes of
\* the remote calls; and when every remote call of the sync was answered, the
\* files under the destination are exactly the files of the remote tree.
C1_PruningCompleteness ==
    DirDone =>
        LET local == FilesUnder(fs, last.skill.destination)
            there == RemoteFiles(rstrip(last.skill.source.path),
                                 last.skill.destination)
        IN  /\ local \subseteq there
            /\ AllAnswered => local = there

\* a sync that downloaded a file, pruned another and left exactly the remote files
C1_Witness ==
    /\ DirDone
    /\ AllAnswered
    /\ last.updated # <<>>
    /\ last.removed # <<>>
    /\ FilesUnder(fs, last.skill.destination) # {}

----------------------------------------------------------------------------
(* C2 *)

\* C2: after sync_directory and remove_stale_files complete for a skill, every
\* file under the destination is in the synced-path set, and every synced path
\* whose download succeeded is a local file holding the downloaded bytes.
C2_SyncedPathSet ==
    DirDone =>
        /\ FilesUnder(fs, last.skill.destination) \subseteq last.synced
        /\ last.synced = { c.dest : c \in FileCalls }
        /\ \A c \in FileCalls : c.content \in Bytes => NodeAt(fs, c.dest) = c.content

\* a sync with a stale file pruned, a file written and a download that failed
C2_Witness ==
    /\ DirDone
    /\ last.removed # <<>>
    /\ \E c \in FileCalls : c.content \in Bytes /\ c.ret
    /\ \E c \in FileCalls : c.content = "None"

----------------------------------------------------------------------------
(* C3 *)

\* C3: when a sync_file call returns, either the fetch succeeded and the
\* destination is a file holding the remote bytes, or the fetch failed, the
\* call returned false and the filesystem is as it was before the call
\* (the destination untouched, no directory created).
C3_FileMode ==
    \A c \in FileCalls :
        c.err = "" =>
            \/ /\ c.content \in Bytes
               /\ c.content = NodeAt(remote, c.src)
               /\ NodeAt(c.post, c.dest) = c.content
            \/ /\ c.content = "None"
               /\ ~c.ret
               /\ c.post = c.pre
               /\ c.wrote = 0

\* a file-mode sync whose fetch failed while the destination and its parent
\* directory were missing
C3_Witness ==
    /\ last.valid
    /\ last.mode = "file"
    /\ \E c \in FileCalls :
        /\ c.content = "None"
        /\ ~Exists(c.pre, Parent(c.dest))
        /\ Exists(remote, c.src)

----------------------------------------------------------------------------
(* C5 *)

\* the exceptions a remote call's outcome can raise out of sync_skill
RemoteErrors == {"JSONDecodeError"} \cup Uncaught

\* C5: with a non-empty skills list, whatever the outcomes of the remote calls
\* (HTTP error, transport error, read timeout, dropped connection, listing body
\* that is not JSON), no failure escapes: once the process has stopped, every skill was processed once, in
\* manifest order, and the exit code is 0.  (Runs stopped by an error of the
\* local filesystem are left aside.)
C5_FailureIsolation ==
    (pc \in {"done", "crashed"} /\ last.valid /\ exception \in {""} \cup RemoteErrors)
        => /\ pc = "done"
           /\ exit_code = 0
           /\ [i \in 1..Len(results) |-> results[i].name]
                = [i \in 1..Len(manifest_skills(manifest)) |->
                        manifest_skills(manifest)[i].name]

----------------------------------------------------------------------------
(* C6 *)

\* C6: when the listing of a directory (the skill's root or a nested one)
\* fails, the sync of that directory changes nothing: no updated and no removed
\* path lies in the corresponding destination directory, and everything at and
\* under that destination is as it was before the sync.
C6_ListingFailureNoChange ==
    DirDone =>
        \A l \in Listings :
            l.status = "None" =>
                /\ \A p \in SeqSet(last.updated) \cup SeqSet(last.removed) :
                        ~(p = l.dest \/ IsAncestor(l.dest, p))
                /\ \A p \in LPaths :
                        (p = l.dest \/ IsAncestor(l.dest, p)) => fs[p] = last.pre[p]

----------------------------------------------------------------------------
(* C7 *)

\* C7: a sync_file call whose fetch succeeds returns false and writes nothing
\* when the destination is a file that already holds the fetched bytes, and in
\* every other case writes the fetched bytes to the destination and returns
\* true.
C7_ByteEqualityShortCircuit ==
    \A c \in FileCalls :
        c.content \in Bytes =>
            IF NodeAt(c.pre, c.dest) = c.content
            THEN ~c.ret /\ c.wrote = 0 /\ c.post = c.pre /\ c.err = ""
            ELSE c.ret /\ NodeAt(c.post, c.dest) = c.content /\ c.err = ""

----------------------------------------------------------------------------
(* C8 *)

\* C8 as stated: after a directory-mode sync no empty directory remains at or
\* under the destination, except the destination itself if it was empty before
\* the sync; with a/b/f under the destination and no a/ in the remote
\* directory, neither a/b nor a exists afterwards.  (Stated here for the syncs
\* whose remote calls were all answered.)
C8_EmptyDirCleanup_Stated ==
    (DirDone /\ AllAnswered) =>
        LET dest == last.skill.destination
        IN  /\ \A p \in LPaths : IsAncestor(dest, p) => ~EmptyDir(fs, p)
            /\ EmptyDir(fs, dest) => EmptyDir(last.pre, dest)
            /\ \A a \in LPaths :
                (/\ Parent(a) = dest
                 /\ \E p \in FilesUnder(last.pre, a) : Len(p) = Len(a) + 2
                 /\ ~Exists(remote, Mapped(dest, rstrip(last.skill.source.path), a)))
                => \A p \in LPaths : (p = a \/ IsAncestor(a, p)) => ~Exists(fs, p)

\* C8 as amended: after a directory-mode sync no empty directory remains
\* strictly under the destination, at any depth; the destination itself is never
\* removed (a destination directory stays a directory, also when the sync has
\* emptied it); with a/b/f under the destination and no a/ in the remote
\* directory, neither a/b nor a exists afterwards.
C8_EmptyDirCleanup ==
    DirDone =>
        LET dest == last.skill.destination
        IN  /\ \A p \in LPaths : IsAncestor(dest, p) => ~EmptyDir(fs, p)
            /\ IsDir(last.pre, dest) => IsDir(fs, dest)
            /\ \A a \in LPaths :
                (/\ Parent(a) = dest
                 /\ \E p \in FilesUnder(last.pre, a) : Len(p) = Len(a) + 2
                 /\ ~Exists(remote, Mapped(dest, rstrip(last.skill.source.path), a)))
                => \A p \in LPaths : (p = a \/ IsAncestor(a, p)) => ~Exists(fs, p)

\* the destination d held only a/b/f, the remote directory has no a/, and the
\* sync left d an empty directory
C8_Witness ==
    /\ DirDone
    /\ last.skill.destination = <<"d">>
    /\ IsFile(last.pre, <<"d", "a", "b", "f">>)
    /\ ~Exists(remote, <<"s", "a">>)
    /\ ~Exists(fs, <<"d", "a">>)
    /\ EmptyDir(fs, <<"d">>)

----------------------------------------------------------------------------
(* C9 *)

\* C9: a run whose manifest is missing makes no remote call and no filesystem
\* write and exits with code 1; a run whose manifest exists with an empty or
\* absent skills list (a file without any document included) makes none either
\* and exits with code 0.
C9_NoNetworkBeforeValidation ==
    LET no_skills == \/ manifest.document = "None"
                     \/ manifest_skills(manifest) = <<>>
    IN  (~manifest.exists \/ no_skills) =>
            /\ net_calls = 0
            /\ fs_writes = 0
            /\ ~last.valid
            /\ pc # "start" =>
                    /\ pc = "exited"
                    /\ exit_code = IF manifest.exists THEN 0 ELSE 1

----------------------------------------------------------------------------
(* C10 *)

\* C10: in directory mode a file's destination is in the synced-path set
\* whether or not its download succeeded; remove_stale_files deletes only files
\* under the destination that are not in the set; a local file whose remote
\* counterpart was listed but not downloaded is neither deleted nor modified;
\* the removed list is disjoint from the updated list and from the set.
C10_PruningSparesListedFiles ==
    DirDone =>
        LET dest == last.skill.destination
            removed == SeqSet(last.removed)
        IN  /\ \A c \in FileCalls : c.dest \in last.synced
            /\ \A p \in LPaths :
                (IsFile(last.pre, p) /\ ~Exists(fs, p))
                    => IsAncestor(dest, p) /\ p \notin last.synced /\ p \in removed
            /\ \A p \in removed : IsFile(last.pre, p) /\ ~Exists(fs, p)
            /\ \A c \in FileCalls :
                (c.content = "None" /\ IsFile(last.pre, c.dest))
                    => fs[c.dest] = last.pre[c.dest]
            /\ removed \cap SeqSet(last.updated) = {}
            /\ removed \cap last.synced = {}

\* a local file whose download failed survived a sync that pruned another file
C10_Witness ==
    /\ DirDone
    /\ last.removed # <<>>
    /\ \E c \in FileCalls :
        c.content = "None" /\ IsFile(last.pre, c.dest) /\ IsFile(fs, c.dest)

----------------------------------------------------------------------------
(* C4 *)

\* no skill's destination is, or lies inside, another skill's destination
DisjointDestinations ==
    LET skills == manifest_skills(manifest)
    IN  \A i, j \in 1..Len(skills) :
            i # j => /\ skills[i].destination # skills[j].destination
                     /\ ~IsAncestor(skills[i].destination, skills[j].destination)

\* the current run is the second of two and has ended
SecondRunEnded == prev.valid /\ pc \in {"done", "exited", "crashed"}

\* the second run made the remote calls of the first, and each ended as it did
\* in the first
SameAnswers == run_answers = prev.answers

\* the second run reported no updated and no removed path and left the
\* filesystem as the first left it
SecondRunIdle ==
    /\ \A i \in 1..Len(results) :
            results[i].updated = <<>> /\ results[i].removed = <<>>
    /\ fs = prev.fs

\* every remote call of both runs was answered
BothRunsAnswered ==
    \A r \in SeqSet(run_answers) \cup SeqSet(prev.answers) :
        \A i \in 1..Len(r) : r[i][2] \notin {"None", "raise"}

\* C4 as stated: for every manifest, nested destinations included, a second
\* run against an unchanged remote reports no updated and no removed path for
\* any skill and leaves the filesystem as the first run left it.  (Stated here
\* for the runs whose remote calls were all answered.)
C4_Idempotence_Stated ==
    (SecondRunEnded /\ BothRunsAnswered) => SecondRunIdle

\* no sync_skill call of the two runs raised, and the only remote calls that
\* failed were downloads of files that the remote holds
OnlyDownloadsFailed ==
    /\ Len(run_answers) = Len(results)
    /\ Len(prev.answers) = Len(prev.results)
    /\ \A r \in SeqSet(run_answers) \cup SeqSet(prev.answers) :
        \A i \in 1..Len(r) :
            r[i][2] = "None" => NodeAt(remote, r[i][1]) \in Bytes

\* the same, for manifests without nested destinations, when a download may
\* fail in one run and succeed in the other: a file whose download failed in
\* the first run is written by the second
C4_Idempotence_AnyOutcome ==
    (SecondRunEnded /\ DisjointDestinations /\ OnlyDownloadsFailed)
        => SecondRunIdle

\* C4 as amended: for every manifest in which no skill's destination is or
\* lies inside another's, a second run against an unchanged remote whose remote
\* calls end as those of the first run did reports no updated and no removed
\* path for any skill and leaves the filesystem as the first run left it,
\* however the two runs end.
C4_Idempotence ==
    (SecondRunEnded /\ DisjointDestinations /\ SameAnswers) => SecondRunIdle

\* a second, idle run of two skills with disjoint destinations, after a first
\* run that updated and removed files
C4_Witness ==
    /\ pc = "done"
    /\ prev.valid
    /\ Len(results) = 2
    /\ DisjointDestinations
    /\ SameAnswers
    /\ \E i \in 1..2 : prev.results[i].updated # <<>>
    /\ \E i \in 1..2 : prev.results[i].removed # <<>>

====
